---- MODULE Spec2Model ----
(***************************************************************************)
(* Sim racing gear-shift CAN node (src/src/main.cpp, src/src/app_config.hpp)*)
(*                                                                         *)
(* Two execution contexts share one CAN device:                            *)
(*   - the statically defined TX thread (tx_thread_entry): constructs a    *)
(*     SimWheel (readiness check, loopback mode, start) and then loops     *)
(*     shift_gear(); k_sleep();                                            *)
(*   - main(): registers one RX filter whose callback is can_rx_callback.  *)
(* The CAN controller itself is the environment: it answers the driver     *)
(* calls nondeterministically and dispatches arriving frames to the        *)
(* callbacks of the matching filters.                                      *)
(***************************************************************************)
EXTENDS Integers, Sequences, FiniteSets, TLC

(* ----------------------------- bounds --------------------------------- *)
MaxTicks == 7        \* shift_gear() calls explored in Spec
MaxLiveTicks == 3    \* shift_gear() calls explored in FairSpec
MaxApply == 14       \* operator++ applications explored in GearSpec
MaxPending == 1      \* frames the controller holds before dispatching them
MaxExternal == 1     \* frames injected by other nodes of a physical bus

(* ------------------------ program constants --------------------------- *)
\* enum class Gear : uint8_t { N = 0, First, ..., Sixth }  (main.cpp:19)
N == 0
First == 1
Second == 2
Third == 3
Fourth == 4
Fifth == 5
Sixth == 6
Gear == {N, First, Second, Third, Fourth, Fifth, Sixth}

\* namespace Config (app_config.hpp:14-15)
CAN_GEAR_MSG_ID == 256
CAN_MSG_DLC == 1

\* mask used by main() for the filter (main.cpp:134): 11-bit standard id mask
CAN_STD_ID_MASK == 2047

\* Config::TX_TIMEOUT = K_MSEC(100), in milliseconds (app_config.hpp:23);
\* K_FOREVER is the timeout value that waits without limit
K_FOREVER == -1
TX_TIMEOUT_Forever == K_FOREVER
TX_TIMEOUT == 100

\* struct can_frame carries up to 8 data bytes (main.cpp:76, frame.data[])
CAN_MAX_DLEN == 8

Byte == 0..255

(* --------------------------- pure helpers ----------------------------- *)
\* static_cast<uint8_t>(x): narrowing of an int to 8 bits
ToUint8(x) == x % 256

\* Gear& operator++(Gear& g)    (main.cpp:22-29)
GearNoWrap(g) == ToUint8(g + 1)
GearWrapEarly(g) == IF g = Fifth THEN N ELSE ToUint8(g + 1)
GearSucc(g) == IF g = Sixth THEN N ELSE ToUint8(g + 1)

\* struct can_frame frame = {0};   (main.cpp:76)
ZeroFrame == [id |-> 0, dlc |-> 0, data |-> [i \in 1..CAN_MAX_DLEN |-> 0]]

\* frame->data[0] / frame.data[0] (TLA+ sequences are 1-based)
Data0(f) == f.data[1]

\* frame preparation of shift_gear (main.cpp:76-85) for gear value g
BuildFrameWrongByte(g) ==
  [id |-> CAN_GEAR_MSG_ID, dlc |-> CAN_MSG_DLC,
   data |-> [ZeroFrame.data EXCEPT ![2] = ToUint8(g)]]
BuildFrame(g) ==
  [id |-> CAN_GEAR_MSG_ID, dlc |-> CAN_MSG_DLC,
   data |-> [ZeroFrame.data EXCEPT ![1] = ToUint8(g)]]

\* what the controller puts on the wire for a frame given to can_send:
\* identifier, dlc and the first dlc data bytes
OnWire(f) ==
  [id |-> f.id, dlc |-> f.dlc,
   data |-> [i \in 1..CAN_MAX_DLEN |-> IF i <= f.dlc THEN f.data[i] ELSE 0]]

\* bitwise AND of two naturals
RECURSIVE BitAnd(_, _)
BitAnd(a, b) ==
  IF a = 0 \/ b = 0 THEN 0
  ELSE (a % 2) * (b % 2) + 2 * BitAnd(a \div 2, b \div 2)

\* struct can_filter filter = {.id = CAN_GEAR_MSG_ID, .mask = CAN_STD_ID_MASK}
\* (main.cpp:133-134)
RxFilterAcceptAll == [id |-> CAN_GEAR_MSG_ID, mask |-> 0]
RxFilterWrongId == [id |-> CAN_GEAR_MSG_ID + 1, mask |-> CAN_STD_ID_MASK]
RxFilter == [id |-> CAN_GEAR_MSG_ID, mask |-> CAN_STD_ID_MASK]

\* acceptance test the controller applies for a filter installed by
\* can_add_rx_filter (main.cpp:136): identifier bits selected by the mask agree
FrameMatchesFilter(f, flt) == BitAnd(f.id, flt.mask) = BitAnd(flt.id, flt.mask)

(* ------------------------------ state --------------------------------- *)
VARIABLES
  txpc,          \* position of the TX thread (tx_thread_entry)
  mainpc,        \* position of main()
  gear0,         \* value current_gear was constructed with
  current_gear,  \* SimWheel::current_gear
  ticks,         \* number of operator++ applications to current_gear so far
  frame,         \* shift_gear's local frame, as last handed to can_send
  ret,           \* shift_gear's local ret, result of the last can_send
  dev_ready,     \* what device_is_ready(dev) answered
  busMode,       \* controller mode: "NORMAL" or "LOOPBACK"
  started,       \* controller started
  filters,       \* RX filters installed in the controller, in order
  rxPending,     \* frames that arrived at the controller, not yet dispatched
  sendAttempts,  \* number of can_send calls
  sentFrames,    \* frames for which can_send returned 0, as put on the wire
  txLog,         \* values logged by "[TX] Gear Shifted -> %d"
  errLog,        \* number of "CAN Send Failed" log lines
  rxCalls,       \* frames can_rx_callback was invoked with
  rxLog,         \* values logged by ">>> [RX] Base Unit received Gear: %d"
  dropped,       \* frames the controller dispatched to no callback, each with
                 \* the number of filters installed at that moment
  setModeCalls,  \* number of can_set_mode calls
  startCalls,    \* number of can_start calls
  addFilterCalls,\* number of can_add_rx_filter calls
  extCount       \* number of frames injected by other nodes

vars == <<txpc, mainpc, gear0, current_gear, ticks, frame, ret, dev_ready,
          busMode, started, filters, rxPending, sendAttempts, sentFrames,
          txLog, errLog, rxCalls, rxLog, dropped, setModeCalls, startCalls,
          addFilterCalls, extCount>>

gearVars == <<gear0, current_gear, ticks>>
txVars == <<txpc, frame, ret, sendAttempts, sentFrames, txLog, errLog>>
busVars == <<dev_ready, busMode, started, setModeCalls, startCalls>>
rxVars == <<rxCalls, rxLog, dropped>>
mainVars == <<mainpc, filters, addFilterCalls>>

\* error codes the driver calls may return (negative errno values)
TimeoutErrors == {-11}         \* -EAGAIN: not sent within the timeout
FaultErrors == {-5}            \* -EIO: low-level bus fault
SendErrors == TimeoutErrors \cup FaultErrors
StoppedErrors == {-115}        \* -ENETDOWN: controller not started
SetupErrors == {-5}            \* -EIO
FilterErrors == {-28}          \* -ENOSPC

TypeOK ==
  /\ txpc \in {"ctor", "set_mode", "start", "shift", "send", "log", "sleep"}
  /\ mainpc \in {"add_filter", "done"}
  /\ gear0 \in Byte
  /\ current_gear \in Byte
  /\ ticks \in Nat
  /\ ret \in Int
  /\ dev_ready \in BOOLEAN
  /\ busMode \in {"NORMAL", "LOOPBACK"}
  /\ started \in BOOLEAN
  /\ Len(rxPending) <= MaxPending

\* state after static initialisation: the TX thread has not run its
\* constructor yet (SimWheel myWheel(can_dev) initialises current_gear(Gear::N),
\* main.cpp:47-48), main() has not been entered, the controller is stopped in
\* its default mode with no filter.
InitWith(g) ==
  /\ txpc = "ctor"
  /\ mainpc = "add_filter"
  /\ gear0 = g
  /\ current_gear = g
  /\ ticks = 0
  /\ frame = ZeroFrame
  /\ ret = 0
  /\ dev_ready = FALSE
  /\ busMode = "NORMAL"
  /\ started = FALSE
  /\ filters = <<>>
  /\ rxPending = <<>>
  /\ sendAttempts = 0
  /\ sentFrames = <<>>
  /\ txLog = <<>>
  /\ errLog = 0
  /\ rxCalls = <<>>
  /\ rxLog = <<>>
  /\ dropped = <<>>
  /\ setModeCalls = 0
  /\ startCalls = 0
  /\ addFilterCalls = 0
  /\ extCount = 0

InitFromFirst == InitWith(First)
Init == InitWith(N)

(* --------------------------- TX thread -------------------------------- *)
\* SimWheel::SimWheel, readiness check (main.cpp:47-52)
CtorCheckReadyNoReturn ==
  /\ txpc = "ctor"
  /\ \E ready \in BOOLEAN : dev_ready' = ready
  /\ txpc' = "set_mode"
  /\ UNCHANGED <<gearVars, frame, ret, sendAttempts, sentFrames, txLog, errLog,
                 busMode, started, setModeCalls, startCalls,
                 mainVars, rxVars, rxPending, extCount>>
CtorCheckReady ==
  /\ txpc = "ctor"
  /\ \E ready \in BOOLEAN :
       /\ dev_ready' = ready
       /\ txpc' = IF ready THEN "set_mode" ELSE "shift"
  /\ UNCHANGED <<gearVars, frame, ret, sendAttempts, sentFrames, txLog, errLog,
                 busMode, started, setModeCalls, startCalls,
                 mainVars, rxVars, rxPending, extCount>>

\* SimWheel::SimWheel, can_set_mode(dev, CAN_MODE_LOOPBACK) (main.cpp:58-61)
CtorSetModeReturnOnError ==
  /\ txpc = "set_mode"
  /\ \E r \in {0} \cup SetupErrors :
       /\ busMode' = IF r = 0 THEN "LOOPBACK" ELSE busMode
       /\ txpc' = IF r = 0 THEN "start" ELSE "shift"
  /\ setModeCalls' = setModeCalls + 1
  /\ UNCHANGED <<gearVars, frame, ret, sendAttempts, sentFrames, txLog, errLog,
                 dev_ready, started, startCalls,
                 mainVars, rxVars, rxPending, extCount>>
CtorSetMode ==
  /\ txpc = "set_mode"
  /\ \E r \in {0} \cup SetupErrors :
       busMode' = IF r = 0 THEN "LOOPBACK" ELSE busMode
  /\ setModeCalls' = setModeCalls + 1
  /\ txpc' = "start"
  /\ UNCHANGED <<gearVars, frame, ret, sendAttempts, sentFrames, txLog, errLog,
                 dev_ready, started, startCalls,
                 mainVars, rxVars, rxPending, extCount>>

\* SimWheel::SimWheel, can_start(dev) (main.cpp:63-69)
CtorStartAbortOnError ==
  /\ txpc = "start"
  /\ \E r \in {0} \cup SetupErrors :
       /\ started' = IF r = 0 THEN TRUE ELSE started
       /\ txpc' = IF r = 0 THEN "shift" ELSE "halt"
  /\ startCalls' = startCalls + 1
  /\ UNCHANGED <<gearVars, frame, ret, sendAttempts, sentFrames, txLog, errLog,
                 dev_ready, busMode, setModeCalls,
                 mainVars, rxVars, rxPending, extCount>>
CtorStart ==
  /\ txpc = "start"
  /\ \E r \in {0} \cup SetupErrors :
       started' = IF r = 0 THEN TRUE ELSE started
  /\ startCalls' = startCalls + 1
  /\ txpc' = "shift"
  /\ UNCHANGED <<gearVars, frame, ret, sendAttempts, sentFrames, txLog, errLog,
                 dev_ready, busMode, setModeCalls,
                 mainVars, rxVars, rxPending, extCount>>

\* SimWheel::shift_gear up to the call of can_send (main.cpp:75-88): advance,
\* prepare the frame, hand it to can_send with timeout TX_TIMEOUT
ShiftGearStep(next_gear, f) ==
  /\ txpc = "shift"
  /\ current_gear' = next_gear
  /\ ticks' = ticks + 1
  /\ frame' = f
  /\ sendAttempts' = sendAttempts + 1
  /\ txpc' = "send"
  /\ UNCHANGED <<gear0, ret, sentFrames, txLog, errLog, busVars, mainVars,
                 rxVars, rxPending, extCount>>

\* can_send returns r to shift_gear (main.cpp:88); on 0 the frame is on the
\* wire and, in loopback, arrives at the controller's receive side
SendReturn(r) ==
  /\ txpc = "send"
  /\ ret' = r
  /\ IF r = 0
     THEN /\ sentFrames' = Append(sentFrames, OnWire(frame))
          /\ rxPending' = IF busMode = "LOOPBACK"
                          THEN Append(rxPending, OnWire(frame))
                          ELSE rxPending
     ELSE UNCHANGED <<sentFrames, rxPending>>
  /\ txpc' = "log"
  /\ UNCHANGED <<gearVars, frame, sendAttempts, txLog, errLog, busVars,
                 mainVars, rxVars, extCount>>

\* results with which the started controller may complete a transmission
SendResults ==
  IF Len(rxPending) < MaxPending THEN {0} \cup FaultErrors ELSE FaultErrors

\* can_send on a controller that is not started fails at once
TxSendNetDown ==
  /\ ~started
  /\ \E r \in StoppedErrors : SendReturn(r)

\* the controller completes the transmission, or reports a fault
TxSendComplete ==
  /\ started
  /\ \E r \in SendResults : SendReturn(r)

\* the timeout given to can_send expires before the controller completed
TxSendTimeout ==
  /\ started
  /\ TX_TIMEOUT # K_FOREVER
  /\ \E r \in TimeoutErrors : SendReturn(r)

\* one call of shift_gear by the loop of tx_thread_entry (main.cpp:110-111),
\* explored for the first `limit` ticks
TxShiftGearStale(limit) ==
  /\ ticks < limit
  /\ ShiftGearStep(GearSucc(current_gear), BuildFrame(current_gear))
TxShiftGearUpTo(limit) ==
  /\ ticks < limit
  /\ ShiftGearStep(GearSucc(current_gear), BuildFrame(GearSucc(current_gear)))

TxShiftGear == TxShiftGearUpTo(MaxTicks)
TxShiftGearLive == TxShiftGearUpTo(MaxLiveTicks)

\* SimWheel::shift_gear, result logging (main.cpp:90-96)
TxLogResultHaltOnError ==
  /\ txpc = "log"
  /\ IF ret = 0
     THEN /\ txLog' = Append(txLog, ToUint8(current_gear))
          /\ UNCHANGED errLog
     ELSE /\ errLog' = errLog + 1
          /\ UNCHANGED txLog
  /\ txpc' = IF ret = 0 THEN "sleep" ELSE "halt"
  /\ UNCHANGED <<gearVars, frame, ret, sendAttempts, sentFrames,
                 busVars, mainVars, rxVars, rxPending, extCount>>
TxLogResultRetry ==
  /\ txpc = "log"
  /\ IF ret = 0
     THEN /\ txLog' = Append(txLog, ToUint8(current_gear))
          /\ UNCHANGED <<errLog, sendAttempts>>
          /\ txpc' = "sleep"
     ELSE /\ errLog' = errLog + 1
          /\ sendAttempts' = sendAttempts + 1
          /\ txpc' = "send"
          /\ UNCHANGED txLog
  /\ UNCHANGED <<gearVars, frame, ret, sentFrames,
                 busVars, mainVars, rxVars, rxPending, extCount>>
TxLogResult ==
  /\ txpc = "log"
  /\ IF ret = 0
     THEN /\ txLog' = Append(txLog, ToUint8(current_gear))
          /\ UNCHANGED errLog
     ELSE /\ errLog' = errLog + 1
          /\ UNCHANGED txLog
  /\ txpc' = "sleep"
  /\ UNCHANGED <<gearVars, frame, ret, sendAttempts, sentFrames,
                 busVars, mainVars, rxVars, rxPending, extCount>>

\* tx_thread_entry, k_sleep(Config::GEAR_SHIFT_INTERVAL) and loop (main.cpp:110-113)
TxSleep ==
  /\ txpc = "sleep"
  /\ txpc' = "shift"
  /\ UNCHANGED <<gearVars, frame, ret, sendAttempts, sentFrames, txLog, errLog,
                 busVars, mainVars, rxVars, rxPending, extCount>>

(* ------------------------------ main ---------------------------------- *)
\* main(): can_add_rx_filter(can_dev, &can_rx_callback, NULL, &filter);
\* the return value is discarded (main.cpp:131-139)
AddFilterStep(newFilters) ==
  /\ mainpc = "add_filter"
  /\ \E r \in {0} \cup FilterErrors :
       filters' = IF r = 0 THEN filters \o newFilters ELSE filters
  /\ addFilterCalls' = addFilterCalls + 1
  /\ mainpc' = "done"
  /\ UNCHANGED <<gearVars, txVars, busVars, rxVars, rxPending, extCount>>

MainAddFilterTwice == AddFilterStep(<<RxFilter, RxFilter>>)
MainAddFilter == AddFilterStep(<<RxFilter>>)

(* ---------------------------- receive path ---------------------------- *)
\* can_rx_callback (main.cpp:120-125): st = [calls, log] before the invocation
can_rx_callbackWrongByte(st, f) ==
  [calls |-> Append(st.calls, f),
   log |-> IF f.id = CAN_GEAR_MSG_ID THEN Append(st.log, f.data[2]) ELSE st.log]
can_rx_callback(st, f) ==
  [calls |-> Append(st.calls, f),
   log |-> IF f.id = CAN_GEAR_MSG_ID THEN Append(st.log, Data0(f)) ELSE st.log]

\* the controller invokes the callback of every installed filter that matches
RECURSIVE Dispatch(_, _, _)
Dispatch(fs, f, st) ==
  IF fs = <<>> THEN st
  ELSE Dispatch(Tail(fs), f,
                IF FrameMatchesFilter(f, Head(fs)) THEN can_rx_callback(st, f)
                ELSE st)

\* the controller dispatches the oldest arrived frame
BusDeliverResend ==
  /\ rxPending # <<>>
  /\ LET f == Head(rxPending)
         st == Dispatch(filters, f, [calls |-> rxCalls, log |-> rxLog])
     IN /\ rxCalls' = st.calls
        /\ rxLog' = st.log
        /\ dropped' = IF st.calls = rxCalls
                       THEN Append(dropped, [id |-> f.id, nfilters |-> Len(filters)])
                       ELSE dropped
        /\ sendAttempts' = IF st.calls = rxCalls THEN sendAttempts
                            ELSE sendAttempts + 1
  /\ rxPending' = Tail(rxPending)
  /\ UNCHANGED <<gearVars, txpc, frame, ret, sentFrames, txLog, errLog,
                 busVars, mainVars, extCount>>
BusDeliver ==
  /\ rxPending # <<>>
  /\ LET f == Head(rxPending)
         st == Dispatch(filters, f, [calls |-> rxCalls, log |-> rxLog])
     IN /\ rxCalls' = st.calls
        /\ rxLog' = st.log
        /\ dropped' = IF st.calls = rxCalls
                       THEN Append(dropped, [id |-> f.id, nfilters |-> Len(filters)])
                       ELSE dropped
  /\ rxPending' = Tail(rxPending)
  /\ UNCHANGED <<gearVars, txVars, busVars, mainVars, extCount>>

\* identifiers and payload bytes other nodes of a physical bus may send
ExtIds == {CAN_GEAR_MSG_ID, 512, 257}
ExtBytes == {4, 9}

\* a frame from another node arrives (controller started, not in loopback)
ExtArrive ==
  /\ started
  /\ busMode = "NORMAL"
  /\ extCount < MaxExternal
  /\ Len(rxPending) < MaxPending
  /\ \E i \in ExtIds, b \in ExtBytes :
       rxPending' = Append(rxPending,
                           [id |-> i, dlc |-> 1,
                            data |-> [ZeroFrame.data EXCEPT ![1] = b]])
  /\ extCount' = extCount + 1
  /\ UNCHANGED <<gearVars, txVars, busVars, mainVars, rxVars>>

(* --------------------------- specifications --------------------------- *)
Next ==
  \/ CtorCheckReady
  \/ CtorSetMode
  \/ CtorStart
  \/ TxShiftGear
  \/ TxSendNetDown
  \/ TxSendComplete
  \/ TxSendTimeout
  \/ TxLogResult
  \/ TxSleep
  \/ MainAddFilter
  \/ BusDeliver
  \/ ExtArrive

Spec == Init /\ [][Next]_vars

\* The TX thread is a ready thread of the kernel: each of its steps is taken
\* once it stays possible (can_send is bounded by TX_TIMEOUT, k_sleep by
\* GEAR_SHIFT_INTERVAL); main() runs; the controller dispatches what arrived.
\* Other nodes are under no obligation to send, and the bus is under none to
\* complete a transmission: only the timeout of can_send is certain.
FairNext ==
  \/ CtorCheckReady
  \/ CtorSetMode
  \/ CtorStart
  \/ TxShiftGearLive
  \/ TxSendNetDown
  \/ TxSendComplete
  \/ TxSendTimeout
  \/ TxLogResult
  \/ TxSleep
  \/ MainAddFilter
  \/ BusDeliver
  \/ ExtArrive

FairSpec ==
  /\ Init
  /\ [][FairNext]_vars
  /\ WF_vars(CtorCheckReady)
  /\ WF_vars(CtorSetMode)
  /\ WF_vars(CtorStart)
  /\ WF_vars(TxShiftGearLive)
  /\ WF_vars(TxSendNetDown)
  /\ WF_vars(TxSendTimeout)
  /\ WF_vars(TxLogResult)
  /\ WF_vars(TxSleep)
  /\ WF_vars(MainAddFilter)
  /\ WF_vars(BusDeliver)

\* operator++ on its own: any of the seven gears as the starting value, then
\* repeated application
GearInit == \E g \in Gear : InitWith(g)

GearAdvance ==
  /\ ticks < MaxApply
  /\ current_gear' = GearSucc(current_gear)
  /\ ticks' = ticks + 1
  /\ UNCHANGED <<gear0, txVars, busVars, mainVars, rxVars, rxPending, extCount>>

GearNext == GearAdvance

GearSpec == GearInit /\ [][GearNext]_vars

(* ------------------------------ claims -------------------------------- *)
Range(s) == {s[i] : i \in DOMAIN s}
Payloads(s) == [i \in DOMAIN s |-> s[i].data[1]]

\* the cycle as the specification writes it: Neutral,1,2,3,4,5,6,Neutral,...
CycleOrder == <<0, 1, 2, 3, 4, 5, 6>>

\* C1: repeated application of the gear successor walks the cycle
\* Neutral,1,2,3,4,5,6,Neutral,...: after k applications from a starting gear
\* the value is the one k places further in the cycle, it is back at the
\* starting gear after every 7th application and at no application in between.
C1_GearCycle ==
  /\ current_gear = CycleOrder[((gear0 + ticks) % 7) + 1]
  /\ (ticks % 7 = 0) => current_gear = gear0
  /\ (ticks % 7 # 0) => current_gear # gear0

\* Sixth has been advanced seven times and is Sixth again, having wrapped
C1_Witness == gear0 = 6 /\ ticks = 7 /\ current_gear = 6

\* C2: in every reachable state the stored current gear is one of the seven
\* defined values, ordinal 0..6.
C2_GearInRange == current_gear \in 0..6

\* past the wrap at Sixth, after both failed and successful sends
C2_Witness ==
  /\ ticks >= 7
  /\ current_gear = 0
  /\ errLog > 0
  /\ Len(txLog) > 0

\* C3: every frame handed to the bus by shift_gear has identifier 0x100,
\* DLC 1 and payload byte 0 equal to the current gear, which is the successor
\* of the gear before the tick; every frame put on the wire has that
\* identifier and length.
C3_FrameShape ==
  /\ [](sendAttempts > 0 =>
          /\ frame.id = 256
          /\ frame.dlc = 1
          /\ frame.data[1] = current_gear)
  /\ [](\A i \in DOMAIN sentFrames :
          sentFrames[i].id = 256 /\ sentFrames[i].dlc = 1)
  /\ [][sendAttempts' # sendAttempts =>
          /\ current_gear' = CycleOrder[((current_gear + 1) % 7) + 1]
          /\ frame'.data[1] = current_gear']_vars

\* a failed and a successful send have happened; the last frame carries Third
C3_Witness ==
  /\ sendAttempts >= 3
  /\ errLog >= 1
  /\ Len(sentFrames) >= 1
  /\ frame.data[1] = 3
  /\ current_gear = 3

\* C4: the byte the receive handler reports for the frame built for gear g
\* is g, for each of the seven gears, and distinct gears give distinct bytes.
C4_RoundTrip ==
  /\ [](\A g1, g2 \in Gear :
          g1 # g2 => OnWire(BuildFrame(g1)).data[1] # OnWire(BuildFrame(g2)).data[1])
  /\ [][\A g \in Gear :
          (/\ rxPending # <<>>
           /\ Head(rxPending) = OnWire(BuildFrame(g))
           /\ filters # <<>>
           /\ rxPending' = Tail(rxPending))
          => rxLog' = Append(rxLog, g)]_vars

\* each of the seven gears has been sent, looped back and reported
C4_Witness == busMode = "LOOPBACK" /\ Range(rxLog) = 0..6

\* C5: a frame whose identifier is not 0x100 never reaches the handler:
\* every handler invocation was for identifier 0x100, and dispatching a frame
\* with another identifier invokes no handler and reports no gear.
C5_FilterRejects ==
  /\ [](\A i \in DOMAIN rxCalls : rxCalls[i].id = 256)
  /\ [][(/\ rxPending # <<>>
         /\ Head(rxPending).id # 256
         /\ rxPending' = Tail(rxPending))
        => (rxCalls' = rxCalls /\ rxLog' = rxLog)]_vars

\* a frame with another identifier arrived while the filter was installed and
\* was dispatched to no handler
C5_Witness ==
  \E i \in DOMAIN dropped : dropped[i].id # 256 /\ dropped[i].nfilters > 0

\* C6: a failed send does not stop the cycle: after logging the failure the
\* TX thread sleeps, the next tick happens, advances the gear to the successor
\* and hands a frame with the new gear to can_send.
C6_FailureDoesNotStop ==
  /\ [][(txpc = "log" /\ ret # 0 /\ txpc' # txpc) =>
          (txpc' = "sleep" /\ current_gear' = current_gear)]_vars
  /\ [][(txpc = "sleep" /\ txpc' # txpc) => txpc' = "shift"]_vars
  /\ [][(ret # 0 /\ ticks' # ticks) =>
          /\ current_gear' = CycleOrder[((current_gear + 1) % 7) + 1]
          /\ sendAttempts' = sendAttempts + 1
          /\ frame' = [id |-> 256, dlc |-> 1,
                       data |-> <<current_gear', 0, 0, 0, 0, 0, 0, 0>>]]_vars
  /\ \A n \in 1..(MaxLiveTicks - 1) :
       (sendAttempts = n /\ ret # 0) ~> (sendAttempts = n + 1)

\* only failures were logged so far and the tick after them sent successfully
C6_Witness ==
  /\ errLog >= 1
  /\ txLog = <<>>
  /\ txpc = "log"
  /\ ret = 0
  /\ sendAttempts = errLog + 1

\* C7: mode is set and the controller started exactly once, before the first
\* can_send and before the filter is registered; the filter is registered
\* exactly once.
C7_ConfiguredBeforeUse ==
  /\ setModeCalls <= 1
  /\ startCalls <= 1
  /\ addFilterCalls <= 1
  /\ (sendAttempts > 0 \/ addFilterCalls > 0) =>
       (setModeCalls = 1 /\ startCalls = 1)

\* C8: in loopback every frame can_send accepted reaches the handler: the
\* payloads sent are the payloads reported followed by those still waiting
\* in the controller, none is lost.
C8_EverySendReceived ==
  busMode = "LOOPBACK" => Payloads(sentFrames) = rxLog \o Payloads(rxPending)

\* C9: in loopback the handler fires only after the corresponding send: every
\* frame the handler was invoked with was put on the wire by can_send before,
\* and handler invocations never outnumber the frames sent.
C9_HandlerAfterSend ==
  busMode = "LOOPBACK" =>
    /\ Len(rxCalls) + Len(rxPending) <= Len(sentFrames)
    /\ \A i \in DOMAIN rxCalls :
         \E j \in DOMAIN sentFrames : j >= i /\ sentFrames[j] = rxCalls[i]
    /\ \A i \in DOMAIN rxLog :
         \E j \in DOMAIN sentFrames : sentFrames[j].data[1] = rxLog[i]

\* three frames were sent in loopback and the handler has run for each
C9_Witness ==
  /\ busMode = "LOOPBACK"
  /\ Len(sentFrames) >= 3
  /\ Len(rxCalls) = Len(sentFrames)

\* C10: once the filter is installed, dispatching a frame with identifier
\* 0x100 invokes the handler exactly once and reports that frame's byte 0.
C10_OncePerAcceptedFrame ==
  [][(/\ rxPending # <<>>
      /\ Head(rxPending).id = 256
      /\ filters # <<>>
      /\ rxPending' = Tail(rxPending))
     => (/\ rxCalls' = Append(rxCalls, Head(rxPending))
         /\ rxLog' = Append(rxLog, Head(rxPending).data[1]))]_vars

\* another node's frame 0x100 [4] was dispatched: one invocation, gear 4
C10_Witness ==
  /\ busMode = "NORMAL"
  /\ extCount = 1
  /\ rxPending = <<>>
  /\ Len(rxCalls) = 1
  /\ rxLog = <<4>>

\* the TX thread is in its loop (shift_gear / k_sleep)
Running == txpc \in {"shift", "send", "log", "sleep"}

\* payloads handed to can_send so far, in order, as the cycle prescribes them
Attempted == [k \in 1..sendAttempts |-> CycleOrder[(k % 7) + 1]]

\* a is obtained from b by deleting elements
RECURSIVE IsSubseq(_, _)
IsSubseq(a, b) ==
  IF a = <<>> THEN TRUE
  ELSE IF b = <<>> THEN FALSE
  ELSE IF Head(a) = Head(b) THEN IsSubseq(Tail(a), Tail(b))
  ELSE IsSubseq(a, Tail(b))

\* C11: an invocation of the receive handler leaves the current gear, the
\* controller's mode and state, the installed filters and the TX thread's
\* position and frame unchanged, and issues no can_send.
C11_HandlerReadOnly ==
  [][rxCalls' # rxCalls =>
       UNCHANGED <<current_gear, ticks, gear0, dev_ready, busMode, started,
                   filters, sendAttempts, sentFrames, frame, ret, txpc,
                   setModeCalls, startCalls, addFilterCalls>>]_vars

\* the handler ran for the looped-back frame while shift_gear had not yet
\* logged the result of that send
C11_Witness ==
  /\ txpc = "log"
  /\ ret = 0
  /\ sendAttempts >= 2
  /\ Len(rxCalls) = Len(sentFrames)
  /\ rxPending = <<>>

\* C12: when the readiness check fails, mode configuration and start are
\* skipped, no send ever succeeds, and the cycle still runs: the ticks happen
\* and each logs a failure.
C12_NotReadyDegraded ==
  /\ []((txpc # "ctor" /\ ~dev_ready) =>
          /\ setModeCalls = 0
          /\ startCalls = 0
          /\ ~started
          /\ sentFrames = <<>>
          /\ txLog = <<>>
          /\ (txpc \in {"log", "sleep"} => ret # 0)
          /\ Running)
  /\ (txpc # "ctor" /\ ~dev_ready) ~>
       (sendAttempts = MaxLiveTicks /\ errLog = MaxLiveTicks)

\* device not ready, and every tick explored has failed
C12_Witness ==
  /\ txpc = "sleep"
  /\ ~dev_ready
  /\ errLog = MaxLiveTicks

\* C13: whatever fails at startup or on sending, the TX thread enters its
\* loop and stays in it, there is no halted position, and under fair
\* scheduling the ticks keep happening.
C13_NoErrorAborts ==
  /\ [](txpc \in {"ctor", "set_mode", "start"} \/ Running)
  /\ [][Running => Running']_vars
  /\ <>Running
  /\ \A n \in 0..(MaxLiveTicks - 1) : (Running /\ ticks = n) ~> (ticks = n + 1)
  /\ <>[](ticks = MaxLiveTicks)

\* mode configuration, start, filter registration and every send failed, and
\* the loop is at its next tick
C13_Witness ==
  /\ dev_ready
  /\ busMode = "NORMAL"
  /\ ~started
  /\ mainpc = "done"
  /\ filters = <<>>
  /\ errLog = MaxLiveTicks
  /\ txpc = "shift"

\* C14: every call of can_send returns, with success, timeout or fault, and
\* the TX thread then reaches the sleep between ticks.
C14_SendReturns ==
  /\ [][(txpc = "send" /\ txpc' # txpc) =>
          (txpc' = "log" /\ ret' \in {0, -11, -5, -115})]_vars
  /\ \A n \in 1..MaxLiveTicks :
       (txpc = "send" /\ sendAttempts = n) ~> (txpc = "sleep" /\ sendAttempts = n)

\* a send timed out after an earlier one had succeeded
C14_Witness ==
  /\ txpc = "sleep"
  /\ ret = -11
  /\ Len(sentFrames) >= 1

\* C15: a tick is one gear advance, one frame built from the advanced gear
\* and one can_send: the gear changes only in that step of the TX thread,
\* every can_send call comes with a gear advance, a failed send goes to the
\* sleep without another call, and the calls equal the ticks.
C15_OnePerTick ==
  /\ [](sendAttempts = ticks)
  /\ [](Len(sentFrames) + errLog <= ticks)
  /\ [][current_gear' # current_gear =>
          /\ txpc = "shift"
          /\ txpc' = "send"
          /\ ticks' = ticks + 1
          /\ sendAttempts' = sendAttempts + 1
          /\ current_gear' = CycleOrder[((current_gear + 1) % 7) + 1]
          /\ frame'.data[1] = current_gear'
          /\ UNCHANGED <<rxCalls, rxLog, mainpc, filters>>]_vars
  /\ [][sendAttempts' # sendAttempts =>
          (sendAttempts' = sendAttempts + 1 /\ current_gear' # current_gear)]_vars
  /\ [][(txpc = "log" /\ txpc' # txpc) =>
          (txpc' = "sleep" /\ sendAttempts' = sendAttempts)]_vars

\* three ticks, two of them failed, none retried
C15_Witness ==
  /\ txpc = "sleep"
  /\ ticks = 3
  /\ sendAttempts = 3
  /\ errLog = 2
  /\ Len(txLog) = 1

\* C16: can_start is attempted whether or not can_set_mode failed, and
\* whether or not either failed the loop begins and makes its send attempts.
C16_SetupFailuresNonFatal ==
  /\ [][(txpc = "set_mode" /\ txpc' # txpc) => txpc' = "start"]_vars
  /\ [][(txpc = "start" /\ txpc' # txpc) =>
          (txpc' = "shift" /\ startCalls' = startCalls + 1)]_vars
  /\ [](Running /\ dev_ready => (setModeCalls = 1 /\ startCalls = 1))
  /\ (txpc = "set_mode") ~> (startCalls = 1 /\ sendAttempts = MaxLiveTicks)

\* setting the mode failed, the controller was started all the same and the
\* ticks explored were attempted
C16_Witness ==
  /\ dev_ready
  /\ setModeCalls = 1
  /\ busMode = "NORMAL"
  /\ startCalls = 1
  /\ started
  /\ sendAttempts = MaxLiveTicks

\* C17: the frame attempted on the k-th tick carries k mod 7, whatever the
\* earlier sends returned: 1 on the first tick, Neutral first on the 7th, and
\* the frames put on the wire are those attempts in order, failed ones left
\* out and none repeated.
C17_PayloadIsTickMod7 ==
  /\ [](sendAttempts > 0 =>
          frame = [id |-> 256, dlc |-> 1,
                   data |-> <<sendAttempts % 7, 0, 0, 0, 0, 0, 0, 0>>])
  /\ [](sendAttempts < 7 => \A i \in DOMAIN sentFrames : sentFrames[i].data[1] # 0)
  /\ [](IsSubseq(Payloads(sentFrames), Attempted))
  /\ [][sendAttempts' # sendAttempts =>
          frame'.data[1] = (sendAttempts + 1) % 7]_vars

\* the 7th tick sent Neutral after at least one earlier send had failed
C17_Witness ==
  /\ sendAttempts = 7
  /\ txpc = "log"
  /\ ret = 0
  /\ errLog >= 1
  /\ Len(sentFrames) >= 2
  /\ sentFrames[Len(sentFrames)].data[1] = 0

====
